---- MODULE Spec2Model ----
(***************************************************************************)
(* A model of beerest's fluent assertion chain (beerest/core/expect.py):   *)
(* the Expect chain, the Check records it appends, the ExpectError it      *)
(* raises and the report ExpectError.format_message assembles; and of the  *)
(* pytest hook of conftest.py that sets the report text pytest shows.      *)
(*                                                                         *)
(* Text is a sequence of one-character strings, so that str(), slicing,    *)
(* len() and "\n".join() are computed character by character.              *)
(***************************************************************************)
EXTENDS Integers, Sequences, FiniteSets, TLC

(***************************************************************************)
(* Bounds of the model.                                                    *)
(***************************************************************************)
\* A chain is driven until it holds this many Check records.
MaxChecks == 2
\* Body texts range from PreviewLimit - BodySlack to PreviewLimit + BodySlack.
BodySlack == 2

(***************************************************************************)
(* Text helpers.                                                           *)
(***************************************************************************)
NL == "\n"

Rep(c, n) == [i \in 1..n |-> c]

\* sep.join(parts), for a one-character or longer separator text
RECURSIVE Join(_, _)
Join(sep, parts) ==
    IF parts = <<>> THEN <<>>
    ELSE IF Len(parts) = 1 THEN parts[1]
    ELSE parts[1] \o sep \o Join(sep, Tail(parts))

\* text[:n]
Slice(text, n) == SubSeq(text, 1, IF n < Len(text) THEN n ELSE Len(text))

\* text.startswith(prefix)
StartsWith(text, prefix) ==
    /\ Len(prefix) <= Len(text)
    /\ SubSeq(text, 1, Len(prefix)) = prefix

\* sub in text
Within(sub, text) ==
    \E i \in 0..(Len(text) - Len(sub)) : SubSeq(text, i + 1, i + Len(sub)) = sub

\* text.find(sub): the 0-based index of the first occurrence, -1 when none
Find(text, sub) ==
    IF Within(sub, text)
    THEN CHOOSE i \in 0..(Len(text) - Len(sub)) :
             /\ SubSeq(text, i + 1, i + Len(sub)) = sub
             /\ \A j \in 0..(i - 1) : SubSeq(text, j + 1, j + Len(sub)) # sub
    ELSE -1

\* text[n:]
SliceFrom(text, n) == SubSeq(text, (IF n < Len(text) THEN n ELSE Len(text)) + 1, Len(text))

Digit(d) == <<"0", "1", "2", "3", "4", "5", "6", "7", "8", "9">>[d + 1]

RECURSIVE NatText(_)
NatText(n) == IF n < 10 THEN <<Digit(n)>> ELSE NatText(n \div 10) \o <<Digit(n % 10)>>

\* str(i) of a Python int
IntText(i) == IF i < 0 THEN <<"-">> \o NatText(-i) ELSE NatText(i)

\* the decimal text of n, zero-padded to w digits (strftime's %H, %M, %S, %f)
RECURSIVE Padded(_, _)
Padded(n, w) == IF w = 0 THEN <<>> ELSE Padded(n \div 10, w - 1) \o <<Digit(n % 10)>>

\* text.split(c), for a character c
RECURSIVE Split(_, _)
Split(text, c) ==
    IF \A i \in 1..Len(text) : text[i] # c THEN <<text>>
    ELSE LET k == CHOOSE i \in 1..Len(text) :
                      text[i] = c /\ \A j \in 1..(i - 1) : text[j] # c
         IN <<SubSeq(text, 1, k - 1)>> \o Split(SubSeq(text, k + 1, Len(text)), c)

\* The characters of the model's texts that are compared by order, in the
\* order of their code points.
Alphabet ==
    <<"0", "1", "2", "3", "4", "5", "6", "7", "8", "9", "_",
      "a", "b", "c", "d", "e", "f", "g", "h", "i", "j", "k", "l", "m",
      "n", "o", "p", "q", "r", "s", "t", "u", "v", "w", "x", "y", "z">>

CharCode(c) == CHOOSE i \in 1..Len(Alphabet) : Alphabet[i] = c

\* a < b for two str: by code point, a proper prefix first
RECURSIVE TextLess(_, _)
TextLess(a, b) ==
    IF b = <<>> THEN FALSE
    ELSE IF a = <<>> THEN TRUE
    ELSE IF Head(a) = Head(b) THEN TextLess(Tail(a), Tail(b))
    ELSE CharCode(Head(a)) < CharCode(Head(b))

(***************************************************************************)
(* Python values.  Every value is a record of one shape: t is the type,    *)
(* n the payload of an int or a bool, s the text of a str, items the       *)
(* elements of a list or of a set (in iteration order) or the key/value    *)
(* pairs of a dict (in insertion order).                                   *)
(***************************************************************************)
PyNone == [t |-> "none", n |-> 0, s |-> <<>>, items |-> <<>>]
IntV(i) == [t |-> "int", n |-> i, s |-> <<>>, items |-> <<>>]
BoolV(b) == [t |-> "bool", n |-> IF b THEN 1 ELSE 0, s |-> <<>>, items |-> <<>>]
StrV(cs) == [t |-> "str", n |-> 0, s |-> cs, items |-> <<>>]
ListV(vs) == [t |-> "list", n |-> 0, s |-> <<>>, items |-> vs]
DictV(kvs) == [t |-> "dict", n |-> 0, s |-> <<>>, items |-> kvs]
SetV(vs) == [t |-> "set", n |-> 0, s |-> <<>>, items |-> vs]
KV(key, val) == [k |-> key, v |-> val]

\* dict.keys(), as texts
DictKeys(d) == {d.items[i].k : i \in 1..Len(d.items)}
\* d[key]
DictGet(d, key) == d.items[CHOOSE i \in 1..Len(d.items) : d.items[i].k = key].v
\* the elements of a set of str, as texts
SetElems(v) == {v.items[i].s : i \in 1..Len(v.items)}

\* bool(v)
Truthy(v) ==
    CASE v.t = "none" -> FALSE
      [] v.t \in {"int", "bool"} -> v.n # 0
      [] v.t = "str" -> v.s # <<>>
      [] OTHER -> v.items # <<>>

\* a == b, for the values of the model (a bool equals the int of its value)
PyEq(a, b) ==
    \/ a = b
    \/ a.t \in {"int", "bool"} /\ b.t \in {"int", "bool"} /\ a.n = b.n

RECURSIVE Repr(_)
\* repr(v); the texts of the model hold no quote and no backslash
Repr(v) ==
    CASE v.t = "none" -> <<"N", "o", "n", "e">>
      [] v.t = "int" -> IntText(v.n)
      [] v.t = "bool" -> IF v.n = 1 THEN <<"T", "r", "u", "e">>
                         ELSE <<"F", "a", "l", "s", "e">>
      [] v.t = "str" -> <<"'">> \o v.s \o <<"'">>
      [] v.t = "list" ->
           <<"[">> \o Join(<<",", " ">>, [i \in 1..Len(v.items) |-> Repr(v.items[i])])
                   \o <<"]">>
      [] v.t = "dict" ->
           <<"{">> \o Join(<<",", " ">>,
                           [i \in 1..Len(v.items) |->
                               <<"'">> \o v.items[i].k \o <<"'", ":", " ">>
                                       \o Repr(v.items[i].v)])
                   \o <<"}">>
      [] v.t = "set" ->
           IF v.items = <<>> THEN <<"s", "e", "t", "(", ")">>
           ELSE <<"{">> \o Join(<<",", " ">>,
                                [i \in 1..Len(v.items) |-> Repr(v.items[i])])
                        \o <<"}">>

\* str(v): the text itself for a str, repr(v) for everything else
Str(v) == IF v.t = "str" THEN v.s ELSE Repr(v)

(***************************************************************************)
(* The Response a chain borrows: a record of status_code, headers,         *)
(* json_data and elapsed_time; NoResponse is Python's None passed as the   *)
(* response.                                                               *)
(***************************************************************************)
NoResponse == [absent |-> TRUE]

Response(code, hdrs, json, elapsed) ==
    [status_code |-> code, headers |-> hdrs, json_data |-> json,
     elapsed_time |-> elapsed]

\* response.headers.get(name)
HeadersGet(hdrs, name) ==
    IF name \in DictKeys(hdrs) THEN DictGet(hdrs, name) ELSE PyNone

(***************************************************************************)
(* Check: one predicate's outcome.  timestamp is datetime.now(), held as   *)
(* the seconds since midnight and the microseconds of the second.          *)
(***************************************************************************)
Check(passed, message, actual, expected, context, timestamp) ==
    [passed |-> passed, message |-> message, actual |-> actual,
     expected |-> expected, context |-> context, timestamp |-> timestamp]

\* timestamp.strftime('%H:%M:%S.%f')[:-3]
StrfTime(ts) ==
    LET full == Padded((ts.second \div 3600) % 24, 2) \o <<":">>
                \o Padded((ts.second \div 60) % 60, 2) \o <<":">>
                \o Padded(ts.second % 60, 2) \o <<".">>
                \o Padded(ts.microsecond, 6)
    IN SubSeq(full, 1, Len(full) - 3)

(***************************************************************************)
(* ExpectError.format_message.  Characters outside ASCII are written as    *)
(* their code point, one element of the text each.                         *)
(***************************************************************************)
DividerWidth == 100
PreviewLimit == 150

divider == Rep("<U+2501>", DividerWidth)
bullet == <<"<U+2022>">>
arrow == <<"<U+2192>">>
Banner ==
    <<NL, "<U+1F534>", " ", "T", "E", "S", "T", " ", "A", "S", "S", "E", "R", "T", "I",
      "O", "N", " ", "F", "A", "I", "L", "E", "D">>
TestPrefix == <<"t", "e", "s", "t", "_">>
TestInformation ==
    <<"<U+1F4CB>", " ", "T", "e", "s", "t", " ", "I", "n", "f", "o", "r", "m", "a",
      "t", "i", "o", "n", ":">>
ResponseInformation ==
    <<"<U+1F4E1>", " ", "R", "e", "s", "p", "o", "n", "s", "e", " ", "I", "n", "f",
      "o", "r", "m", "a", "t", "i", "o", "n", ":">>
FailureHeading == <<"<U+274C>", " ", "F", "a", "i", "l", "u", "r", "e", ":">>
Indent == <<" ", " ", " ">>
StatusLabel == <<" ", "S", "t", "a", "t", "u", "s", ":", " ">>
TimeLabel == <<" ", "T", "i", "m", "e", ":", " ">>
BodyLabel == <<" ", "B", "o", "d", "y", ":", " ">>
TypeLabel == <<" ", "T", "y", "p", "e", ":", " ">>
ExpectedLabel == <<" ", "E", "x", "p", "e", "c", "t", "e", "d", ":", " ">>
ReceivedLabel == <<" ", "R", "e", "c", "e", "i", "v", "e", "d", ":", " ">>

\* A stack frame: f_code.co_name, f_code.co_filename, f_lineno.
Frame(name, file, line) == [name |-> name, file |-> file, line |-> line]

\* the walk, had it taken the line of the frame that called format_message
\* in place of the line of the test frame
TestInfoCallerLine(stack) ==
    LET RECURSIVE Walk(_)
        Walk(frames) ==
            IF frames = <<>> THEN <<>>
            ELSE IF StartsWith(Head(frames).name, TestPrefix)
                 THEN <<"T", "e", "s", "t", ":", " ">> \o Head(frames).name
                      \o <<NL, "F", "i", "l", "e", ":", " ">> \o Head(frames).file
                      \o <<":">> \o IntText(stack[2].line)
                 ELSE Walk(Tail(frames))
    IN Walk(stack)

\* the walk, had it gone on to the outermost frame named test_
RECURSIVE TestInfoOutermost(_)
TestInfoOutermost(stack) ==
    IF stack = <<>> THEN <<>>
    ELSE IF TestInfoOutermost(Tail(stack)) # <<>> THEN TestInfoOutermost(Tail(stack))
    ELSE IF StartsWith(Head(stack).name, TestPrefix)
         THEN <<"T", "e", "s", "t", ":", " ">> \o Head(stack).name
              \o <<NL, "F", "i", "l", "e", ":", " ">> \o Head(stack).file
              \o <<":">> \o IntText(Head(stack).line)
         ELSE <<>>

\* The walk from inspect.currentframe() along f_back: the text of test_info,
\* "" when no frame's function name starts with "test_".
RECURSIVE TestInfo(_)
TestInfo(stack) ==
    IF stack = <<>> THEN <<>>
    ELSE IF StartsWith(Head(stack).name, TestPrefix)
         THEN <<"T", "e", "s", "t", ":", " ">> \o Head(stack).name
              \o <<NL, "F", "i", "l", "e", ":", " ">> \o Head(stack).file
              \o <<":">> \o IntText(Head(stack).line)
         ELSE TestInfo(Tail(stack))

\* json_preview, had it cut a text of exactly PreviewLimit characters too
JsonPreviewFromLimit(json) ==
    LET json_preview == Str(json)
    IN IF Len(json_preview) >= PreviewLimit
       THEN Slice(json_preview, PreviewLimit) \o <<".", ".", ".">>
       ELSE json_preview

\* json_preview of the response snapshot
JsonPreview(json) ==
    LET json_preview == Str(json)
    IN IF Len(json_preview) > PreviewLimit
       THEN Slice(json_preview, PreviewLimit) \o <<".", ".", ".">>
       ELSE json_preview

\* the parts the response adds to message_parts
ResponseParts(response) ==
    IF response = NoResponse THEN <<>>
    ELSE <<ResponseInformation,
           Indent \o bullet \o StatusLabel \o IntText(response.status_code),
           Indent \o bullet \o TimeLabel \o IntText(response.elapsed_time)
                  \o <<"m", "s">>>>
         \o (IF Truthy(response.json_data)
             THEN <<Indent \o bullet \o BodyLabel \o JsonPreview(response.json_data)>>
             ELSE <<>>)
         \o <<<<>>>>

\* the parts one failed check adds to message_parts
FailureParts(check) ==
    <<FailureHeading,
      Indent \o arrow \o TypeLabel \o check.message,
      Indent \o arrow \o ExpectedLabel \o Str(check.expected),
      Indent \o arrow \o ReceivedLabel \o Str(check.actual),
      Indent \o arrow \o TimeLabel \o StrfTime(check.timestamp),
      <<>>>>

RECURSIVE FailedParts(_)
FailedParts(checks) ==
    IF checks = <<>> THEN <<>>
    ELSE (IF Head(checks).passed THEN <<>> ELSE FailureParts(Head(checks)))
         \o FailedParts(Tail(checks))

\* message_parts, had the response snapshot been added before the test
\* information
MessagePartsResponseFirst(checks, response, stack) ==
    LET test_info == TestInfo(stack)
    IN <<Banner, divider, <<>>>>
       \o ResponseParts(response)
       \o (IF test_info # <<>>
           THEN <<TestInformation, Indent \o bullet \o <<" ">> \o test_info, <<>>>>
           ELSE <<>>)
       \o FailedParts(checks)
       \o <<divider>>

\* message_parts, in the order format_message builds it
MessageParts(checks, response, stack) ==
    LET test_info == TestInfo(stack)
    IN <<Banner, divider, <<>>>>
       \o (IF test_info # <<>>
           THEN <<TestInformation, Indent \o bullet \o <<" ">> \o test_info, <<>>>>
           ELSE <<>>)
       \o ResponseParts(response)
       \o FailedParts(checks)
       \o <<divider>>

format_message(checks, response, stack) ==
    Join(<<NL>>, MessageParts(checks, response, stack))

(***************************************************************************)
(* Exceptions.  An ExpectError carries its message, its checks, its        *)
(* response and, as its traceback, the stack it was raised on.  Its text,  *)
(* which __init__ has format_message build from these on that stack, is    *)
(* ErrorText.                                                              *)
(***************************************************************************)
NoExc == [kind |-> "none"]
Exc(kind, msg) == [kind |-> kind, msg |-> msg]

\* the frames of this file, by function: co_name and the line that is running
LibFrame(fn) ==
    LET file == <<"e", "x", "p", "e", "c", "t", ".", "p", "y">>
    IN CASE fn = "format_message" ->
              Frame(<<"f", "o", "r", "m", "a", "t", "_", "m", "e", "s", "s", "a", "g", "e">>,
                    file, 36)
         [] fn = "__init__" -> Frame(<<"_", "_", "i", "n", "i", "t", "_", "_">>, file, 25)
         [] fn = "_add_check" ->
              Frame(<<"_", "a", "d", "d", "_", "c", "h", "e", "c", "k">>, file, 107)
         [] fn = "status" -> Frame(<<"s", "t", "a", "t", "u", "s">>, file, 113)
         [] fn = "equals" -> Frame(<<"e", "q", "u", "a", "l", "s">>, file, 140)
         [] fn = "contains" -> Frame(<<"c", "o", "n", "t", "a", "i", "n", "s">>, file, 152)
         [] fn = "matches" -> Frame(<<"m", "a", "t", "c", "h", "e", "s">>, file, 160)
         [] fn = "less_than" ->
              Frame(<<"l", "e", "s", "s", "_", "t", "h", "a", "n">>, file, 168)
         [] fn = "greater_than" ->
              Frame(<<"g", "r", "e", "a", "t", "e", "r", "_", "t", "h", "a", "n">>, file, 176)
         [] fn = "has_length" ->
              Frame(<<"h", "a", "s", "_", "l", "e", "n", "g", "t", "h">>, file, 184)
         [] fn = "is_json" -> Frame(<<"i", "s", "_", "j", "s", "o", "n">>, file, 192)
         [] fn = "has_keys" -> Frame(<<"h", "a", "s", "_", "k", "e", "y", "s">>, file, 200)
         [] fn = "satisfies" ->
              Frame(<<"s", "a", "t", "i", "s", "f", "i", "e", "s">>, file, 208)
         [] fn = "matches_schema" ->
              Frame(<<"m", "a", "t", "c", "h", "e", "s", "_", "s", "c", "h", "e", "m", "a">>,
                    file, 222)

\* ExpectError.__init__
ExpectError(message, checks, response, stack) ==
    [kind |-> "ExpectError", message |-> message, checks |-> checks,
     response |-> response, stack |-> stack]

\* the frames format_message walks when __init__ calls it
FormatStack(e) == <<LibFrame("format_message"), LibFrame("__init__")>> \o e.stack

\* str(e): super().__init__(self.format_message())
ErrorText(e) == format_message(e.checks, e.response, FormatStack(e))

(***************************************************************************)
(* conftest.py: pytest_exception_interact.  node is the test node (name    *)
(* and path.name), exc the exception that left the test; the traceback's   *)
(* last entry is the frame that raised it.  The result is report.longrepr  *)
(* as the hook leaves it.                                                  *)
(***************************************************************************)
NoReport == [set |-> FALSE, text |-> <<>>]
Report(text) == [set |-> TRUE, text |-> text]

\* "Test Information:"
InformationMarker == SubSeq(TestInformation, 3, Len(TestInformation))
\* the banner without its leading newline
BannerText == Tail(Banner)

\* the header the hook builds
LocationHeader(test_file, test_name, lineno) ==
    <<NL, "<U+1F4CB>", " ", "T", "e", "s", "t", " ", "L", "o", "c", "a", "t", "i", "o",
      "n", ":", NL>>
    \o Indent \o bullet \o <<" ", "F", "i", "l", "e", ":", " ">> \o test_file \o <<NL>>
    \o Indent \o bullet \o <<" ", "T", "e", "s", "t", ":", " ">> \o test_name \o <<NL>>
    \o Indent \o bullet \o <<" ", "L", "i", "n", "e", ":", " ">> \o IntText(lineno)
    \o <<NL, NL>>

pytest_exception_interact(node, exc, longrepr) ==
    IF exc.kind # "ExpectError" THEN longrepr
    ELSE LET error_message == ErrorText(exc)
             header == LocationHeader(node.file, node.name, Head(exc.stack).line)
             error_start == Find(error_message, BannerText)
         IN IF ~Within(InformationMarker, error_message) /\ error_start # -1
            THEN Report(Slice(error_message, error_start)
                        \o BannerText \o <<NL>>
                        \o divider \o <<NL>>
                        \o header
                        \o SliceFrom(error_message,
                                     error_start + Len(BannerText) + 1
                                         + DividerWidth + 1))
            ELSE Report(error_message)

(***************************************************************************)
(* Expect.  self is the chain: response, context, checks, _current_value;  *)
(* now is the clock datetime.now() reads.  Every method yields the chain   *)
(* after the call and the exception it raised, if any.  stack is the       *)
(* caller's frames, innermost first.  has_type and has_array_items, which  *)
(* only build a schema for matches_schema, are left out.                   *)
(***************************************************************************)
\* the clock advances by this many microseconds between two reads
TickMicros == 999500

\* the next reading of the clock after t
Tick(t) ==
    [second |-> t.second + (t.microsecond + TickMicros) \div 1000000,
     microsecond |-> (t.microsecond + TickMicros) % 1000000]

Result(self, exc) == [self |-> self, exc |-> exc]

\* the value of an expression: a bool, or the exception its evaluation raised
Val(b) == [exc |-> NoExc, val |-> b]
Fail(kind, msg) == [exc |-> Exc(kind, msg), val |-> FALSE]

\* _add_check, had it raised with the chain's whole list of checks
AddCheckRaisingAll(self, passed, message, actual, expected, stack) ==
    LET check == Check(passed, message, actual, expected, self.context, self.now)
        appended == [self EXCEPT !.checks = Append(@, check),
                                 !.now = Tick(@)]
    IN IF ~passed
       THEN Result(appended,
                   ExpectError(<<"A", "s", "s", "e", "r", "t", "i", "o", "n", " ",
                                 "f", "a", "i", "l", "e", "d">>,
                               appended.checks, self.response,
                               <<LibFrame("_add_check")>> \o stack))
       ELSE Result(appended, NoExc)

\* _add_check, had it kept only the newest record
AddCheckKeepingLast(self, passed, message, actual, expected, stack) ==
    LET check == Check(passed, message, actual, expected, self.context, self.now)
        appended == [self EXCEPT !.checks = <<check>>,
                                 !.now = Tick(@)]
    IN IF ~passed
       THEN Result(appended,
                   ExpectError(<<"A", "s", "s", "e", "r", "t", "i", "o", "n", " ",
                                 "f", "a", "i", "l", "e", "d">>,
                               <<check>>, self.response,
                               <<LibFrame("_add_check")>> \o stack))
       ELSE Result(appended, NoExc)

\* _add_check, had it raised with every failed record of the chain
AddCheckRaisingFailed(self, passed, message, actual, expected, stack) ==
    LET check == Check(passed, message, actual, expected, self.context, self.now)
        appended == [self EXCEPT !.checks = Append(@, check),
                                 !.now = Tick(@)]
    IN IF ~passed
       THEN Result(appended,
                   ExpectError(<<"A", "s", "s", "e", "r", "t", "i", "o", "n", " ",
                                 "f", "a", "i", "l", "e", "d">>,
                               SelectSeq(appended.checks, LAMBDA c : ~c.passed),
                               self.response,
                               <<LibFrame("_add_check")>> \o stack))
       ELSE Result(appended, NoExc)

_add_check(self, passed, message, actual, expected, stack) ==
    LET check == Check(passed, message, actual, expected, self.context, self.now)
        appended == [self EXCEPT !.checks = Append(@, check),
                                 !.now = Tick(@)]
    IN IF ~passed
       THEN Result(appended,
                   ExpectError(<<"A", "s", "s", "e", "r", "t", "i", "o", "n", " ",
                                 "f", "a", "i", "l", "e", "d">>,
                               <<check>>, self.response,
                               <<LibFrame("_add_check")>> \o stack))
       ELSE Result(appended, NoExc)

\* equals, had it compared the values and not their texts
EqualsByValue(self, expected, stack) ==
    LET passed == PyEq(self.current_value, expected)
        r == _add_check(self, passed,
                        <<"e", "q", "u", "a", "l", "i", "t", "y", " ", "c", "h", "e", "c", "k">>,
                        self.current_value, expected, <<LibFrame("equals")>> \o stack)
    IN IF r.exc.kind # "none" THEN r
       ELSE IF ~passed THEN Result(r.self, Exc("AssertionError", "expected_but_got"))
       ELSE r

equals(self, expected, stack) ==
    LET passed == Str(self.current_value) = Str(expected)
        r == _add_check(self, passed,
                        <<"e", "q", "u", "a", "l", "i", "t", "y", " ", "c", "h", "e", "c", "k">>,
                        self.current_value, expected, <<LibFrame("equals")>> \o stack)
    IN IF r.exc.kind # "none" THEN r
       ELSE IF ~passed THEN Result(r.self, Exc("AssertionError", "expected_but_got"))
       ELSE r

\* status, had it tested the code for truth and not against None
StatusIfCode(self, code, stack) ==
    IF self.response = NoResponse
    THEN Result(self, Exc("AttributeError", "status_code"))
    ELSE LET set == [self EXCEPT !.current_value = IntV(self.response.status_code)]
         IN IF Truthy(code) THEN equals(set, code, <<LibFrame("status")>> \o stack)
            ELSE Result(set, NoExc)

status(self, code, stack) ==
    IF self.response = NoResponse
    THEN Result(self, Exc("AttributeError", "status_code"))
    ELSE LET set == [self EXCEPT !.current_value = IntV(self.response.status_code)]
         IN IF code # PyNone THEN equals(set, code, <<LibFrame("status")>> \o stack)
            ELSE Result(set, NoExc)

(***************************************************************************)
(* jsonpath_ng, for the paths of the model: "$" followed by ".name"        *)
(* steps.  Any other text is malformed and parse raises.                   *)
(***************************************************************************)
IsName(seg) ==
    /\ seg # <<>>
    /\ \A i \in 1..Len(seg) : \E j \in 1..Len(Alphabet) : Alphabet[j] = seg[i]

\* jsonpath_ng.parse(path): the fields of the steps, or a parse error
JsonPathParse(path) ==
    LET segs == Split(path, ".")
    IN IF /\ Head(segs) = <<"$">>
          /\ \A i \in 2..Len(segs) : IsName(segs[i])
       THEN [ok |-> TRUE, fields |-> Tail(segs)]
       ELSE [ok |-> FALSE, fields |-> <<>>]

\* jsonpath_expr.find(data): the values of the matches
RECURSIVE JsonPathFind(_, _)
JsonPathFind(fields, data) ==
    IF fields = <<>> THEN <<data>>
    ELSE IF data.t = "dict" /\ Head(fields) \in DictKeys(data)
         THEN JsonPathFind(Tail(fields), DictGet(data, Head(fields)))
         ELSE <<>>

\* body, had it cleared the cursor before looking the path up
BodyClearingCursor(self, path) ==
    LET cleared == [self EXCEPT !.current_value = PyNone]
    IN IF self.response = NoResponse
       THEN Result(self, Exc("AttributeError", "json_data"))
       ELSE IF Truthy(path)
       THEN IF ~Truthy(self.response.json_data)
            THEN Result(cleared, Exc("ValueError", "Response has no JSON data"))
            ELSE LET jsonpath_expr == JsonPathParse(path.s)
                     found == JsonPathFind(jsonpath_expr.fields, self.response.json_data)
                 IN IF ~jsonpath_expr.ok
                    THEN Result(cleared, Exc("ValueError", "Invalid JSONPath"))
                    ELSE Result([self EXCEPT !.current_value =
                                     IF found # <<>> THEN found[1] ELSE PyNone],
                                NoExc)
       ELSE Result([self EXCEPT !.current_value = self.response.json_data], NoExc)

body(self, path) ==
    IF self.response = NoResponse
    THEN Result(self, Exc("AttributeError", "json_data"))
    ELSE IF Truthy(path)
    THEN IF ~Truthy(self.response.json_data)
         THEN Result(self, Exc("ValueError", "Response has no JSON data"))
         ELSE LET jsonpath_expr == JsonPathParse(path.s)
                  found == JsonPathFind(jsonpath_expr.fields, self.response.json_data)
              IN IF ~jsonpath_expr.ok
                 THEN Result(self, Exc("ValueError", "Invalid JSONPath"))
                 ELSE Result([self EXCEPT !.current_value =
                                  IF found # <<>> THEN found[1] ELSE PyNone],
                             NoExc)
    ELSE Result([self EXCEPT !.current_value = self.response.json_data], NoExc)

header(self, name) ==
    IF self.response = NoResponse
    THEN Result(self, Exc("AttributeError", "headers"))
    ELSE Result([self EXCEPT !.current_value =
                     HeadersGet(self.response.headers, name)], NoExc)

time(self) ==
    IF self.response = NoResponse
    THEN Result(self, Exc("AttributeError", "elapsed_time"))
    ELSE Result([self EXCEPT !.current_value = IntV(self.response.elapsed_time)],
                NoExc)

(***************************************************************************)
(* The expressions the predicates evaluate, with the exceptions Python     *)
(* raises for operands that do not support them.                           *)
(***************************************************************************)
\* expected in container
In(expected, container) ==
    CASE container.t = "str" ->
           IF expected.t = "str" THEN Val(Within(expected.s, container.s))
           ELSE Fail("TypeError", "in <string> requires string as left operand")
      [] container.t \in {"list", "set"} ->
           Val(\E i \in 1..Len(container.items) : PyEq(container.items[i], expected))
      [] container.t = "dict" ->
           IF expected.t \in {"list", "dict", "set"}
           THEN Fail("TypeError", "unhashable type")
           ELSE Val(expected.t = "str" /\ expected.s \in DictKeys(container))
      [] OTHER -> Fail("TypeError", "argument is not iterable")

\* a < b; lists, dicts and sets are not among the operands of the model
Less(a, b) ==
    CASE a.t \in {"int", "bool"} /\ b.t \in {"int", "bool"} -> Val(a.n < b.n)
      [] a.t = "str" /\ b.t = "str" -> Val(TextLess(a.s, b.s))
      [] OTHER -> Fail("TypeError", "not supported between instances")

\* len(v)
LenOf(v) ==
    CASE v.t = "str" -> [exc |-> NoExc, n |-> Len(v.s)]
      [] v.t \in {"list", "dict", "set"} -> [exc |-> NoExc, n |-> Len(v.items)]
      [] OTHER -> [exc |-> Exc("TypeError", "object has no len()"), n |-> 0]

\* bool(re.match(pattern, text)), for a pattern of literal characters; any
\* other pattern of the model does not compile
ReMatch(pattern, text) ==
    IF pattern = <<>> \/ IsName(pattern) THEN Val(StartsWith(text, pattern))
    ELSE Fail("re.error", "bad pattern")

RECURSIVE Dedupe(_)
Dedupe(seq) ==
    IF seq = <<>> THEN <<>>
    ELSE LET rest == Dedupe(SubSeq(seq, 1, Len(seq) - 1))
             x == seq[Len(seq)]
         IN IF \E i \in 1..Len(rest) : rest[i] = x THEN rest ELSE Append(rest, x)

Reverse(seq) == [i \in 1..Len(seq) |-> seq[Len(seq) + 1 - i]]

\* set(texts): the elements in the order the set iterates, which the hash
\* seed of the process decides; two orders stand for the seeds
PySet(texts, hashseed) ==
    LET elems == Dedupe([i \in 1..Len(texts) |-> StrV(texts[i])])
    IN SetV(IF hashseed = 0 THEN elems ELSE Reverse(elems))

\* list(d.keys())
KeyList(d) == [i \in 1..Len(d.items) |-> d.items[i].k]

\* the caller's predicate applied to the cursor
Apply(predicate, v) ==
    CASE predicate = "is_none" -> Val(v = PyNone)
      [] predicate = "len_is_2" ->
           IF LenOf(v).exc.kind # "none" THEN [exc |-> LenOf(v).exc, val |-> FALSE]
           ELSE Val(LenOf(v).n = 2)

(***************************************************************************)
(* The predicates.                                                         *)
(***************************************************************************)
contains(self, expected, stack) ==
    LET e == In(expected, self.current_value)
    IN IF e.exc.kind # "none" THEN Result(self, e.exc)
       ELSE _add_check(self, e.val,
                       <<"c", "o", "n", "t", "a", "i", "n", "s", " ", "c", "h", "e", "c", "k">>,
                       self.current_value, expected, <<LibFrame("contains")>> \o stack)

matches(self, pattern, stack) ==
    LET e == ReMatch(pattern.s, Str(self.current_value))
    IN IF e.exc.kind # "none" THEN Result(self, e.exc)
       ELSE _add_check(self, e.val,
                       <<"p", "a", "t", "t", "e", "r", "n", " ", "m", "a", "t", "c", "h">>,
                       self.current_value, pattern, <<LibFrame("matches")>> \o stack)

less_than(self, value, stack) ==
    LET e == Less(self.current_value, value)
    IN IF e.exc.kind # "none" THEN Result(self, e.exc)
       ELSE _add_check(self, e.val,
                       <<"l", "e", "s", "s", " ", "t", "h", "a", "n", " ", "c", "h", "e", "c", "k">>,
                       self.current_value, value, <<LibFrame("less_than")>> \o stack)

greater_than(self, value, stack) ==
    LET e == Less(value, self.current_value)
    IN IF e.exc.kind # "none" THEN Result(self, e.exc)
       ELSE _add_check(self, e.val,
                       <<"g", "r", "e", "a", "t", "e", "r", " ", "t", "h", "a", "n", " ",
                         "c", "h", "e", "c", "k">>,
                       self.current_value, value, <<LibFrame("greater_than")>> \o stack)

has_length(self, length, stack) ==
    LET e == LenOf(self.current_value)
    IN IF e.exc.kind # "none" THEN Result(self, e.exc)
       ELSE _add_check(self, PyEq(IntV(e.n), length),
                       <<"l", "e", "n", "g", "t", "h", " ", "c", "h", "e", "c", "k">>,
                       IntV(e.n), length, <<LibFrame("has_length")>> \o stack)

is_json(self, stack) ==
    IF self.response = NoResponse
    THEN Result(self, Exc("AttributeError", "json_data"))
    ELSE _add_check(self, self.response.json_data # PyNone,
                    <<"J", "S", "O", "N", " ", "v", "a", "l", "i", "d", "a", "t", "i", "o", "n">>,
                    BoolV(Truthy(self.response.json_data)), PyNone,
                    <<LibFrame("is_json")>> \o stack)

\* has_keys, had it passed as soon as one of the keys is present
HasKeysAny(self, keys, hashseed, stack) ==
    LET first == In(StrV(keys[1]), self.current_value)
        missing == SelectSeq(keys, LAMBDA k : ~In(StrV(k), self.current_value).val)
    IN IF keys # <<>> /\ first.exc.kind # "none" THEN Result(self, first.exc)
       ELSE IF self.current_value.t # "dict"
       THEN Result(self, Exc("AttributeError", "keys"))
       ELSE _add_check(self, keys = <<>> \/ Len(missing) < Len(keys),
                       <<"k", "e", "y", "s", " ", "p", "r", "e", "s", "e", "n", "c", "e", " ",
                         "c", "h", "e", "c", "k">>,
                       PySet(KeyList(self.current_value), hashseed),
                       PySet(keys, hashseed),
                       <<LibFrame("has_keys")>> \o stack)

has_keys(self, keys, hashseed, stack) ==
    LET first == In(StrV(keys[1]), self.current_value)
        missing == SelectSeq(keys, LAMBDA k : ~In(StrV(k), self.current_value).val)
    IN IF keys # <<>> /\ first.exc.kind # "none" THEN Result(self, first.exc)
       ELSE IF self.current_value.t # "dict"
       THEN Result(self, Exc("AttributeError", "keys"))
       ELSE _add_check(self, missing = <<>>,
                       <<"k", "e", "y", "s", " ", "p", "r", "e", "s", "e", "n", "c", "e", " ",
                         "c", "h", "e", "c", "k">>,
                       PySet(KeyList(self.current_value), hashseed),
                       PySet(keys, hashseed),
                       <<LibFrame("has_keys")>> \o stack)

satisfies(self, predicate, message, stack) ==
    LET e == Apply(predicate, self.current_value)
    IN IF e.exc.kind # "none" THEN Result(self, e.exc)
       ELSE _add_check(self, e.val, message, self.current_value, PyNone,
                       <<LibFrame("satisfies")>> \o stack)

(***************************************************************************)
(* Schema validation.  beerest.core.schema is not among the sources: the   *)
(* validator is a query whose answer, a validity flag and the error        *)
(* messages, is an input of the call.                                      *)
(***************************************************************************)
ValidationResults ==
    {[is_valid |-> TRUE, error_messages |-> ListV(<<>>)],
     [is_valid |-> FALSE,
      error_messages |-> ListV(<<StrV(<<"b", "a", "d", " ", "t", "y", "p", "e">>)>>)]}

matches_schema(self, schema, result, stack) ==
    _add_check(self, result.is_valid,
               <<"s", "c", "h", "e", "m", "a", " ", "v", "a", "l", "i", "d", "a", "t", "i",
                 "o", "n", ":", " ">>
               \o (IF ~result.is_valid THEN Str(result.error_messages) ELSE <<>>),
               self.current_value, schema,
               <<LibFrame("matches_schema")>> \o stack)

(***************************************************************************)
(* The inputs of the model.                                                *)
(***************************************************************************)
Headers == DictV(<<KV(<<"c", "t">>, StrV(<<"j", "s", "o", "n">>))>>)

\* {"error": "not found"}
ErrorBody ==
    DictV(<<KV(<<"e", "r", "r", "o", "r">>,
               StrV(<<"n", "o", "t", " ", "f", "o", "u", "n", "d">>))>>)

\* {"d": {"a": 1}, "u": [1, 2]}
DataBody ==
    DictV(<<KV(<<"d">>, DictV(<<KV(<<"a">>, IntV(1))>>)),
            KV(<<"u">>, ListV(<<IntV(1), IntV(2)>>))>>)

\* a body whose text is the n digits 1 2 3 ... 9 0 1 2 ...
LongBody(n) == StrV([i \in 1..n |-> Digit(i % 10)])

\* the bodies that are present but empty or false-like
FalsyBodies == {DictV(<<>>), ListV(<<>>), IntV(0), BoolV(FALSE), StrV(<<>>)}

Responses ==
    {NoResponse,
     Response(404, Headers, ErrorBody, 120),
     Response(200, Headers, DataBody, 35),
     Response(200, Headers, PyNone, 35)}

FalsyResponses == {Response(200, Headers, b, 35) : b \in FalsyBodies}

LongResponses ==
    {Response(200, Headers, LongBody(n), 35) :
        n \in (PreviewLimit - BodySlack)..(PreviewLimit + BodySlack)}

Contexts == {PyNone}
HashSeeds == {0, 1}
StartTimes == {[second |-> 34207, microsecond |-> 1999]}

CallerStacks ==
    {<<Frame(<<"t", "e", "s", "t", "_", "a">>, <<"t", ".", "p", "y">>, 12),
       Frame(<<"t", "e", "s", "t", "_", "r", "u", "n">>, <<"r", ".", "p", "y">>, 3)>>,
     <<Frame(<<"l", "a", "t", "e", "s", "t", "_", "x">>, <<"m", ".", "p", "y">>, 7)>>}

StatusArgs == {PyNone, IntV(0), IntV(200)}
BodyPaths ==
    {PyNone, StrV(<<>>), StrV(<<"$", ".", "d">>), StrV(<<"$", ".", "u">>),
     StrV(<<"$", ".", "z">>), StrV(<<"$", "[">>)}
HeaderNames == {<<"c", "t">>, <<"z">>}
EqualsArgs == {PyNone, IntV(200), StrV(<<"2", "0", "0">>), StrV(InformationMarker)}
ContainsArgs == {StrV(<<"a">>), IntV(1)}
Patterns == {StrV(<<"2">>), StrV(<<"(">>)}
OrderArgs == {IntV(100), StrV(<<"3">>)}
Lengths == {IntV(2)}
KeyArgs == {<<>>, <<<<"a">>>>, <<<<"a">>, <<"b">>>>}
Predicates == {"is_none", "len_is_2"}
Messages == {<<"c", "u", "s", "t", "o", "m", " ", "c", "h", "e", "c", "k">>}
\* the stacks format_message runs on when the caller calls it again on an
\* ExpectError it holds: from the caller's stacks, and from another line of
\* the same test
FormatAgainStacks ==
    {<<LibFrame("format_message")>> \o stack :
        stack \in CallerStacks
                  \cup {<<Frame(<<"t", "e", "s", "t", "_", "a">>, <<"t", ".", "p", "y">>, 15),
                          Frame(<<"t", "e", "s", "t", "_", "r", "u", "n">>,
                                <<"r", ".", "p", "y">>, 3)>>}}

\* the test nodes: node.name and node.path.name
Nodes ==
    {[name |-> <<"t", "e", "s", "t", "_", "a">>, file |-> <<"t", ".", "p", "y">>],
     [name |-> <<"l", "a", "t", "e", "s", "t", "_", "x">>, file |-> <<"m", ".", "p", "y">>]}
Schemas == {DictV(<<KV(<<"t", "y", "p", "e">>, StrV(<<"i", "n", "t">>))>>)}

(***************************************************************************)
(* The state: one chain, the exception its last call raised, the call, and *)
(* the report text the host hook has set once the exception left the test. *)
(***************************************************************************)
VARIABLES response, context, checks, current_value, now, raised, last, longrepr

vars == <<response, context, checks, current_value, now, raised, last, longrepr>>

Self ==
    [response |-> response, context |-> context, checks |-> checks,
     current_value |-> current_value, now |-> now]

\* Expect.__init__ on one of the responses rs
Construct(rs) ==
    /\ response \in rs
    /\ context \in Contexts
    /\ checks = <<>>
    /\ current_value = PyNone
    /\ now \in StartTimes
    /\ raised = NoExc
    /\ last = [op |-> "__init__", arg |-> PyNone]
    /\ longrepr = NoReport

Init == Construct(Responses)

\* the test is running: no exception has left it yet
InTest == last.op # "pytest_exception_interact"

\* the call op(arg) returned or raised as r says
Call(op, arg, r) ==
    /\ InTest
    /\ checks' = r.self.checks
    /\ current_value' = r.self.current_value
    /\ now' = r.self.now
    /\ raised' = r.exc
    /\ last' = [op |-> op, arg |-> arg]
    /\ UNCHANGED <<response, context, longrepr>>

\* a chain is driven until it holds MaxChecks records
Room == Len(checks) < MaxChecks

Status ==
    \E code \in StatusArgs, stack \in CallerStacks :
        Room /\ Call("status", code, status(Self, code, stack))

Body == \E path \in BodyPaths : Room /\ Call("body", path, body(Self, path))

Header ==
    \E name \in HeaderNames : Room /\ Call("header", StrV(name), header(Self, name))

Time == Room /\ Call("time", PyNone, time(Self))

Equals ==
    \E expected \in EqualsArgs, stack \in CallerStacks :
        Room /\ Call("equals", expected, equals(Self, expected, stack))

Contains ==
    \E expected \in ContainsArgs, stack \in CallerStacks :
        Room /\ Call("contains", expected, contains(Self, expected, stack))

Matches ==
    \E pattern \in Patterns, stack \in CallerStacks :
        Room /\ Call("matches", pattern, matches(Self, pattern, stack))

LessThan ==
    \E value \in OrderArgs, stack \in CallerStacks :
        Room /\ Call("less_than", value, less_than(Self, value, stack))

GreaterThan ==
    \E value \in OrderArgs, stack \in CallerStacks :
        Room /\ Call("greater_than", value, greater_than(Self, value, stack))

HasLength ==
    \E length \in Lengths, stack \in CallerStacks :
        Room /\ Call("has_length", length, has_length(Self, length, stack))

IsJson ==
    \E stack \in CallerStacks : Room /\ Call("is_json", PyNone, is_json(Self, stack))

HasKeys ==
    \E keys \in KeyArgs, hashseed \in HashSeeds, stack \in CallerStacks :
        Room /\ Call("has_keys", ListV([i \in 1..Len(keys) |-> StrV(keys[i])]),
                     has_keys(Self, keys, hashseed, stack))

Satisfies ==
    \E predicate \in Predicates, message \in Messages, stack \in CallerStacks :
        Room /\ Call("satisfies", StrV(message),
                     satisfies(Self, predicate, message, stack))

MatchesSchema ==
    \E schema \in Schemas, result \in ValidationResults, stack \in CallerStacks :
        Room /\ Call("matches_schema", schema,
                     matches_schema(Self, schema, result, stack))

\* the caller, done with the chain, builds an ExpectError of its own from the
\* chain's checks
NewExpectError ==
    \E stack \in CallerStacks :
        /\ InTest
        /\ ~Room
        /\ last.op # "ExpectError"
        /\ raised' = ExpectError(<<"A", "s", "s", "e", "r", "t", "i", "o", "n", " ",
                                   "f", "a", "i", "l", "e", "d">>,
                                 checks, response, stack)
        /\ last' = [op |-> "ExpectError", arg |-> PyNone]
        /\ UNCHANGED <<response, context, checks, current_value, now, longrepr>>

\* the exception the last call raised leaves the test and the host calls the
\* hook with it
PytestExceptionInteract ==
    \E node \in Nodes :
        /\ InTest
        /\ raised.kind # "none"
        /\ longrepr' = pytest_exception_interact(node, raised, longrepr)
        /\ last' = [op |-> "pytest_exception_interact", arg |-> node]
        /\ UNCHANGED <<response, context, checks, current_value, now, raised>>

Next ==
    \/ Status
    \/ Body
    \/ Header
    \/ Time
    \/ Equals
    \/ Contains
    \/ Matches
    \/ LessThan
    \/ GreaterThan
    \/ HasLength
    \/ IsJson
    \/ HasKeys
    \/ Satisfies
    \/ MatchesSchema
    \/ NewExpectError
    \/ PytestExceptionInteract

Spec == Init /\ [][Next]_vars

\* the chains on a response whose body is present but empty or false-like
InitFalsy == Construct(FalsyResponses)
SpecFalsy == InitFalsy /\ [][Next]_vars

\* the chains on a response whose body text is about PreviewLimit long
InitLong == Construct(LongResponses)
SpecLong == InitLong /\ [][Next]_vars

(***************************************************************************)
(* Properties.                                                             *)
(***************************************************************************)
PredicateOps ==
    {"equals", "contains", "matches", "less_than", "greater_than", "has_length",
     "is_json", "has_keys", "satisfies", "matches_schema"}

\* the predicates that record the cursor as actual and their argument as expected
ComparingOps == {"equals", "contains", "matches", "less_than", "greater_than"}

\* the exceptions of a call that cannot proceed
PreconditionKinds == {"ValueError", "TypeError", "AttributeError"}

LastCheck == checks[Len(checks)]

\* C1: a predicate call that evaluates its condition appends exactly one
\* record to the chain's checks: passed = TRUE when it returns; when the
\* condition is false it raises an ExpectError whose checks are that one record,
\* passed = FALSE, with the call's actual and expected values, and whose
\* response is the chain's, however many records the chain held before.  A
\* call that raises anything else did not reach its condition and appends
\* nothing.
C1_PredicateOutcome ==
    [][last'.op \in PredicateOps =>
         IF raised'.kind \in {"none", "ExpectError"}
         THEN /\ Len(checks') = Len(checks) + 1
              /\ SubSeq(checks', 1, Len(checks)) = checks
              /\ checks'[Len(checks')].passed = (raised'.kind = "none")
              /\ last'.op \in ComparingOps =>
                    /\ checks'[Len(checks')].actual = current_value
                    /\ checks'[Len(checks')].expected = last'.arg
              /\ raised'.kind = "ExpectError" =>
                    /\ raised'.checks = <<checks'[Len(checks')]>>
                    /\ raised'.response = response
              /\ current_value' = current_value
         ELSE /\ checks' = checks
              /\ raised'.kind # "AssertionError"]_vars

\* C1 witness: a predicate failed on a chain that already held a record
C1_Witness ==
    /\ last.op \in PredicateOps
    /\ raised.kind = "ExpectError"
    /\ Len(checks) = 2
    /\ Len(raised.checks) = 1
    /\ checks[1].passed

\* C2: equals passes exactly when the texts of the cursor and of the argument
\* are equal, whatever their types, and when they differ it raises ExpectError
\* and no other exception.
C2_EqualsByText ==
    last.op = "equals" =>
        IF Str(current_value) = Str(last.arg)
        THEN raised.kind = "none" /\ LastCheck.passed
        ELSE raised.kind = "ExpectError" /\ ~LastCheck.passed

\* C2 witness: the cursor 200, a number, equals the argument "200", a text
C2_Witness ==
    /\ last.op = "equals"
    /\ current_value = IntV(200)
    /\ last.arg = StrV(<<"2", "0", "0">>)
    /\ raised.kind = "none"

\* C2 witness of the failing side is C1's; this one names a differing pair
C2_WitnessDiffer ==
    /\ last.op = "equals"
    /\ current_value = PyNone
    /\ last.arg = IntV(200)
    /\ raised.kind = "ExpectError"

\* the response carries a decoded JSON body
HasJson == response # NoResponse /\ response.json_data # PyNone

\* C3: body() with no path on a response that carries no JSON data raises the
\* precondition error, ValueError; it does not return the chain.
C3_NoPathNoJsonRaises ==
    (/\ last.op = "body"
     /\ ~Truthy(last.arg)
     /\ response # NoResponse
     /\ response.json_data = PyNone)
    => raised.kind = "ValueError"

\* C4: body(path), for a well-formed path that matches nothing in the body, the
\* empty bodies {} and [] included, returns the chain with the cursor absent
\* and does not raise; equals(None) on an absent cursor then passes.
C4_NoMatchIsAbsent ==
    /\ (/\ last.op = "body"
        /\ Truthy(last.arg)
        /\ HasJson
        /\ JsonPathParse(last.arg.s).ok
        /\ JsonPathFind(JsonPathParse(last.arg.s).fields, response.json_data) = <<>>)
       => raised.kind = "none" /\ current_value = PyNone
    /\ (last.op = "equals" /\ last.arg = PyNone /\ current_value = PyNone)
       => raised.kind = "none"

\* the preconditions C5 lists: what the last call needed and did not have
PreconditionViolated ==
    \/ /\ last.op = "body"
       /\ response # NoResponse
       /\ \/ response.json_data = PyNone
          \/ Truthy(last.arg) /\ ~JsonPathParse(last.arg.s).ok
    \/ /\ last.op = "contains"
       /\ \/ current_value.t \notin {"str", "list", "dict", "set"}
          \/ current_value.t = "str" /\ last.arg.t # "str"
    \/ /\ last.op \in {"less_than", "greater_than"}
       /\ ~ \/ current_value.t \in {"int", "bool"} /\ last.arg.t \in {"int", "bool"}
            \/ current_value.t = "str" /\ last.arg.t = "str"
    \/ /\ last.op = "has_length"
       /\ current_value.t \notin {"str", "list", "dict", "set"}
    \/ /\ last.op = "has_keys"
       /\ current_value.t # "dict"

\* C5: a call whose precondition is violated raises a precondition error and
\* appends no record; a predicate whose precondition holds and whose condition
\* is false raises ExpectError and nothing else.
C5_DisjointErrorKinds ==
    [][/\ PreconditionViolated' =>
             raised'.kind \in PreconditionKinds /\ checks' = checks
       /\ (/\ last'.op \in PredicateOps
           /\ ~PreconditionViolated'
           /\ Len(checks') > Len(checks)
           /\ ~checks'[Len(checks')].passed)
          => raised'.kind = "ExpectError"]_vars

\* C6: is_json() passes exactly when the JSON body is present and not empty or
\* false-like; on {}, [], 0, false and "" it raises ExpectError.
C6_IsJsonTruthy ==
    (last.op = "is_json" /\ response # NoResponse) =>
        IF response.json_data # PyNone /\ Truthy(response.json_data)
        THEN raised.kind = "none"
        ELSE raised.kind = "ExpectError"

\* the names has_keys was last called with
Requested == {last.arg.items[i].s : i \in 1..Len(last.arg.items)}

\* C7: has_keys on a mapping cursor passes exactly when every requested name is
\* a key of the cursor; when it fails, the record the ExpectError carries has
\* expected = the set of the requested names and actual = the set of all the
\* keys of the cursor.
C7_HasKeys ==
    (last.op = "has_keys" /\ current_value.t = "dict") =>
        IF Requested \subseteq DictKeys(current_value)
        THEN raised.kind = "none" /\ LastCheck.passed
        ELSE /\ raised.kind = "ExpectError"
             /\ raised.checks[1].expected.t = "set"
             /\ raised.checks[1].actual.t = "set"
             /\ SetElems(raised.checks[1].expected) = Requested
             /\ Len(raised.checks[1].expected.items) = Cardinality(Requested)
             /\ SetElems(raised.checks[1].actual) = DictKeys(current_value)
             /\ Len(raised.checks[1].actual.items)
                    = Cardinality(DictKeys(current_value))

\* C7 witness: has_keys("a", "b") on the cursor {a: 1} failed with
\* expected {a, b} and actual {a}
C7_Witness ==
    /\ last.op = "has_keys"
    /\ current_value = DictV(<<KV(<<"a">>, IntV(1))>>)
    /\ Requested = {<<"a">>, <<"b">>}
    /\ raised.kind = "ExpectError"
    /\ SetElems(raised.checks[1].expected) = {<<"a">>, <<"b">>}
    /\ SetElems(raised.checks[1].actual) = {<<"a">>}

\* C8: status(code) with a code sets the cursor to the status code, also when
\* the check then fails, appends one equality record with actual = the status
\* code and expected = code, and raises ExpectError exactly when their texts
\* differ; status() with no code sets the cursor, appends nothing and raises
\* nothing.
C8_StatusInlineEquals ==
    [][(last'.op = "status" /\ response # NoResponse) =>
         /\ current_value' = IntV(response.status_code)
         /\ IF last'.arg = PyNone
            THEN checks' = checks /\ raised'.kind = "none"
            ELSE /\ Len(checks') = Len(checks) + 1
                 /\ checks' = Append(checks, checks'[Len(checks')])
                 /\ checks'[Len(checks')].message
                        = <<"e", "q", "u", "a", "l", "i", "t", "y", " ", "c", "h", "e", "c", "k">>
                 /\ checks'[Len(checks')].actual = IntV(response.status_code)
                 /\ checks'[Len(checks')].expected = last'.arg
                 /\ checks'[Len(checks')].passed
                        = (IntText(response.status_code) = Str(last'.arg))
                 /\ raised'.kind = IF IntText(response.status_code) = Str(last'.arg)
                                   THEN "none" ELSE "ExpectError"]_vars

\* C8 witness: status(code) failed and left the cursor on the status code
C8_Witness ==
    /\ last.op = "status"
    /\ last.arg = IntV(200)
    /\ response # NoResponse
    /\ response.status_code = 404
    /\ raised.kind = "ExpectError"
    /\ current_value = IntV(404)
    /\ raised.checks[1].actual = IntV(404)

\* the lines of the report of the exception raised last
ReportLines == Split(ErrorText(raised), NL)

\* the places of the lines of L that are the text x, in order
Places(L, x) == SelectSeq([i \in 1..Len(L) |-> i], LAMBDA i : L[i] = x)

\* the records of cs that failed, in order
FailedOf(cs) == SelectSeq(cs, LAMBDA c : ~c.passed)

\* a frame of the stack format_message walked is a test's
TestFrameResolved ==
    \E i \in 1..Len(FormatStack(raised)) :
        StartsWith(FormatStack(raised)[i].name, <<"t", "e", "s", "t", "_">>)

\* C9: the report is, in this order: the banner line, the divider rule, the
\* test-location block (exactly when a test frame was resolved), the response
\* snapshot block (exactly when a response is attached), one failure block per
\* failed record in the order of the records, each with the predicate's label,
\* expected, actual and the timestamp, and the closing divider as the last
\* line.  For a failed equals(200) on a response with status 404 it holds
\* "Status: 404", "Expected: 200" and "Received: 404".
C9_ReportLayout ==
    raised.kind = "ExpectError" =>
        LET L == ReportLines
            failed == FailedOf(raised.checks)
            tests == Places(L, TestInformation)
            resps == Places(L, ResponseInformation)
            fails == Places(L, FailureHeading)
            first == IF TestFrameResolved THEN 9 ELSE 5
        IN /\ L[1] = <<>> /\ L[2] = Tail(Banner)
           /\ L[3] = Rep("<U+2501>", 100) /\ L[4] = <<>>
           /\ L[Len(L)] = Rep("<U+2501>", 100)
           /\ tests = IF TestFrameResolved THEN <<5>> ELSE <<>>
           /\ TestFrameResolved =>
                 /\ StartsWith(L[6], Indent \o bullet \o <<" ", "T", "e", "s", "t", ":", " ">>)
                 /\ StartsWith(L[7], <<"F", "i", "l", "e", ":", " ">>)
                 /\ L[8] = <<>>
           /\ resps = IF raised.response # NoResponse THEN <<first>> ELSE <<>>
           /\ raised.response # NoResponse =>
                 L[first + 1] = Indent \o bullet \o <<" ", "S", "t", "a", "t", "u", "s", ":", " ">>
                                \o IntText(raised.response.status_code)
           /\ Len(fails) = Len(failed)
           /\ \A k \in 1..Len(fails) :
                 /\ resps # <<>> => fails[k] > resps[1]
                 /\ fails[k] >= first
                 /\ fails[k] = Len(L) - 6 * (Len(fails) - k + 1)
                 /\ L[fails[k] + 1] = Indent \o arrow \o TypeLabel \o failed[k].message
                 /\ L[fails[k] + 2] = Indent \o arrow \o ExpectedLabel
                                      \o Str(failed[k].expected)
                 /\ L[fails[k] + 3] = Indent \o arrow \o ReceivedLabel
                                      \o Str(failed[k].actual)
                 /\ L[fails[k] + 4] = Indent \o arrow \o TimeLabel
                                      \o StrfTime(failed[k].timestamp)
                 /\ L[fails[k] + 5] = <<>>
           /\ (/\ last.op = "equals" /\ last.arg = IntV(200)
               /\ current_value = IntV(404)
               /\ raised.response # NoResponse
               /\ raised.response.status_code = 404)
              => /\ Within(<<"S", "t", "a", "t", "u", "s", ":", " ", "4", "0", "4">>,
                           ErrorText(raised))
                 /\ Within(<<"E", "x", "p", "e", "c", "t", "e", "d", ":", " ", "2", "0", "0">>,
                           ErrorText(raised))
                 /\ Within(<<"R", "e", "c", "e", "i", "v", "e", "d", ":", " ", "4", "0", "4">>,
                           ErrorText(raised))

\* C9 witness: equals(200) failed on the status 404 under a test function, and
\* the report has the test block, the response block and the failure block
\* with the timestamp to the millisecond
C9_Witness ==
    /\ raised.kind = "ExpectError"
    /\ last.op = "equals" /\ last.arg = IntV(200) /\ current_value = IntV(404)
    /\ TestFrameResolved
    /\ LET L == ReportLines
       IN /\ Places(L, TestInformation) = <<5>>
          /\ Places(L, ResponseInformation) = <<9>>
          /\ Places(L, FailureHeading) = <<14>>
          /\ L[18] = Indent \o arrow
                  \o <<" ", "T", "i", "m", "e", ":", " ",
                       "0", "9", ":", "3", "0", ":", "0", "7", ".", "0", "0", "1">>
          /\ Len(L) = 20

\* C9 witness of several failure blocks: an ExpectError over two failed records
C9_WitnessTwoFailures ==
    /\ raised.kind = "ExpectError"
    /\ Len(FailedOf(raised.checks)) = 2
    /\ LET L == ReportLines IN Len(Places(L, FailureHeading)) = 2

\* the body previews of the report: what follows "   * Body: " on its lines
BodyPreviews ==
    LET prefix == Indent \o bullet \o <<" ", "B", "o", "d", "y", ":", " ">>
        L == ReportLines
        at == SelectSeq([i \in 1..Len(L) |-> i], LAMBDA i : StartsWith(L[i], prefix))
    IN [k \in 1..Len(at) |-> SubSeq(L[at[k]], Len(prefix) + 1, Len(L[at[k]]))]

C10_WitnessAtLimit ==
    /\ raised.kind = "ExpectError"
    /\ raised.response # NoResponse
    /\ Len(Str(raised.response.json_data)) = 150
    /\ BodyPreviews = <<Str(raised.response.json_data)>>

\* the host hook has run on an ExpectError
Intercepted == last.op = "pytest_exception_interact" /\ raised.kind = "ExpectError"

\* the report has a test-location block: the stack walk found a test frame
HasLocationBlock(e) == TestInfo(FormatStack(e)) # <<>>

\* C11: when the hook intercepts an ExpectError whose report has no
\* test-location block, the text it sets is the report with one block
\* inserted right after the banner line, a block that names the test file, the
\* test name and the innermost traceback line, every character of the report
\* kept in place around it; when the report has the block, the text it sets
\* is the report.
C11_HookSplice ==
    Intercepted =>
        LET orig == ErrorText(raised)
            text == longrepr.text
            p == Len(Banner) + 1
            block == SubSeq(text, p + 1, Len(text) - (Len(orig) - p))
        IN /\ longrepr.set
           /\ IF HasLocationBlock(raised)
              THEN text = orig
              ELSE /\ Len(text) > Len(orig)
                   /\ text = Slice(orig, p) \o block \o SliceFrom(orig, p)
                   /\ Within(last.arg.file, block)
                   /\ Within(last.arg.name, block)
                   /\ Within(IntText(Head(raised.stack).line), block)

\* the places of the frames of a stack whose function name starts with "test_"
TestFrames(stack) == {i \in 1..Len(stack) : StartsWith(stack[i].name, TestPrefix)}

\* the innermost such frame, if any
ResolvedFrame(stack) ==
    IF TestFrames(stack) = {} THEN <<>>
    ELSE <<stack[CHOOSE i \in TestFrames(stack) : \A j \in TestFrames(stack) : i <= j]>>

\* C12 as stated: the report of an ExpectError, formatted again from its
\* checks and response on any call stack, is the text it was built with.
C12_FormatterDeterministic ==
    raised.kind = "ExpectError" =>
        \A stack \in FormatAgainStacks :
            format_message(raised.checks, raised.response, stack) = ErrorText(raised)

\* C12, amended: the report of an ExpectError, formatted again from its checks
\* and response on a call stack with the same innermost test frame (function
\* name, file and line, or none), is the text it was built with.
C12_DeterministicGivenTestFrame ==
    raised.kind = "ExpectError" =>
        \A stack \in FormatAgainStacks :
            ResolvedFrame(stack) = ResolvedFrame(FormatStack(raised))
                => format_message(raised.checks, raised.response, stack)
                       = ErrorText(raised)

\* C12 witness: a failed equality check raised on a stack with a test frame,
\* and a different stack to format on again with that same test frame
C12_Witness ==
    /\ raised.kind = "ExpectError"
    /\ last.op = "equals"
    /\ ResolvedFrame(FormatStack(raised)) # <<>>
    /\ \E stack \in FormatAgainStacks :
           /\ stack # FormatStack(raised)
           /\ ResolvedFrame(stack) = ResolvedFrame(FormatStack(raised))

\* the step evaluated a predicate: a predicate operation, or status with a
\* code, that raised no precondition error
Evaluated ==
    /\ \/ last'.op \in PredicateOps
       \/ last'.op = "status" /\ last'.arg # PyNone /\ response # NoResponse
    /\ raised'.kind \in {"none", "ExpectError"}

\* C13: every step of a chain, whatever it returned or raised, leaves the
\* records the chain held as they were and in place, and adds one record at
\* the end exactly when it evaluated a predicate.
C13_AppendOnly ==
    [][/\ Len(checks') >= Len(checks)
       /\ SubSeq(checks', 1, Len(checks)) = checks
       /\ Len(checks') = Len(checks) + (IF Evaluated THEN 1 ELSE 0)]_vars

\* C13 witness: the caller caught a failed predicate, went on, and the next
\* predicate raised a precondition error: the failed record is still the
\* chain's only record
C13_Witness ==
    /\ last.op \in PredicateOps
    /\ raised.kind \in PreconditionKinds
    /\ Len(checks) = 1
    /\ ~checks[1].passed

\* every record of the chain passed: the chain has raised no ExpectError
NoSignalYet == \A i \in 1..Len(checks) : checks[i].passed

\* C14 as stated: a chain that has raised no ExpectError holds at most one
\* record.
C14_AtMostOneBeforeSignal == NoSignalYet => Len(checks) <= 1

\* the operations of the chain that evaluate a predicate
EvaluatingOps == PredicateOps \cup {"status"}

\* C14, amended: the ExpectError a chain operation raises carries exactly one
\* record, the failed record the operation appended last, however many records
\* the chain holds; an operation that passed raised nothing and left a passing
\* record last.
C14_SignalCarriesOne ==
    /\ (last.op \in EvaluatingOps /\ raised.kind = "ExpectError") =>
           /\ Len(raised.checks) = 1
           /\ raised.checks[1] = LastCheck
           /\ ~LastCheck.passed
    /\ (last.op \in PredicateOps /\ raised.kind = "none") => LastCheck.passed

\* C14 witness: two predicates passed, and the chain holds two records
\* without having raised
C14_Witness ==
    /\ last.op \in PredicateOps
    /\ raised.kind = "none"
    /\ Len(checks) = 2
    /\ NoSignalYet

\* the value a navigation call selects from the response
Selected(call) ==
    CASE call.op = "status" -> IntV(response.status_code)
      [] call.op = "header" ->
            IF \E i \in 1..Len(response.headers.items) :
                   response.headers.items[i].k = call.arg.s
            THEN DictGet(response.headers, call.arg.s)
            ELSE PyNone
      [] call.op = "time" -> IntV(response.elapsed_time)
      [] call.op = "body" ->
            IF ~Truthy(call.arg) THEN response.json_data
            ELSE LET name == SubSeq(call.arg.s, 3, Len(call.arg.s))
                 IN IF /\ response.json_data.t = "dict"
                       /\ name \in DictKeys(response.json_data)
                    THEN DictGet(response.json_data, name)
                    ELSE PyNone

NavigationOps == {"status", "header", "time", "body"}

\* C15: a navigation call that raises no precondition error sets the cursor
\* to the value it selects from the response (status with a code too, also
\* when its check then fails); every other step leaves the cursor as it was:
\* a predicate that passes, fails or raises a precondition error, and a
\* navigation call that raises a precondition error, which appends no record
\* either.  No step changes the response.
C15_CursorFrame ==
    [][/\ response' = response
       /\ IF last'.op \in NavigationOps /\ raised'.kind \notin PreconditionKinds
          THEN current_value' = Selected(last')
          ELSE current_value' = current_value
       /\ (last'.op \in NavigationOps /\ raised'.kind \in PreconditionKinds)
              => checks' = checks]_vars

\* C15 witness: body(path) raised a precondition error and the cursor is still
\* the status code the chain selected before
C15_Witness ==
    /\ last.op = "body"
    /\ raised.kind = "ValueError"
    /\ Len(checks) = 1
    /\ current_value = IntV(response.status_code)

\* C16: the report of an ExpectError names, in its test-location block, the
\* function, file and line of the innermost frame of the stack format_message
\* ran on whose function name starts with "test_", also when a frame further
\* out has such a name; when no frame has one, the report has no
\* test-location block.
C16_InnermostTestFrame ==
    raised.kind = "ExpectError" =>
        LET L == ReportLines
            stack == FormatStack(raised)
            tests == TestFrames(stack)
        IN IF tests = {}
           THEN /\ Places(L, TestInformation) = <<>>
                /\ \A i \in 1..Len(L) :
                       ~StartsWith(L[i], <<"F", "i", "l", "e", ":", " ">>)
           ELSE LET frame == stack[CHOOSE i \in tests : \A j \in tests : i <= j]
                IN /\ Places(L, TestInformation) = <<5>>
                   /\ L[6] = Indent \o bullet \o <<" ", "T", "e", "s", "t", ":", " ">>
                             \o frame.name
                   /\ L[7] = <<"F", "i", "l", "e", ":", " ">> \o frame.file \o <<":">>
                             \o IntText(frame.line)

\* C16 witness: a predicate failed under two nested test functions, inside
\* frames that are no tests, and the report names the inner test
C16_Witness ==
    /\ raised.kind = "ExpectError"
    /\ last.op = "has_length"
    /\ Cardinality(TestFrames(FormatStack(raised))) = 2
    /\ \A i \in TestFrames(FormatStack(raised)) : i > 4
    /\ ReportLines[6] = Indent \o bullet
                         \o <<" ", "T", "e", "s", "t", ":", " ", "t", "e", "s", "t", "_", "a">>

====
